---- MODULE Spec2Model ----
(***************************************************************************)
(* State model of the N x N x N cube of WebVR-RubiksCube.                  *)
(*                                                                         *)
(*   src/rubik.ts          class Cube / class Cubie: the mutating cube,    *)
(*                         colours stored per face slot of every cubie     *)
(*   src/unnamed/part_000  createCube / rotateLayer: the functional cube,  *)
(*                         face labels stored per cubie                    *)
(*                                                                         *)
(* JavaScript objects are modelled as a heap: `cubies` is the array of     *)
(* references held by a Cube, a function whose domain is the set of        *)
(* indexes that were written, and `heap` maps a reference to the Cubie     *)
(* object (pos, size, faceMap).  A read of an index that was never written *)
(* gives Undefined, a write beyond the end grows `length`, a write at a    *)
(* negative index leaves `length` alone, as in JavaScript.                 *)
(***************************************************************************)
EXTENDS Integers, Sequences, FiniteSets, TLC

\* ---------------------------------------------------------------- bounds
\* largest cube size constructed
MaxSize == 3
\* how many sizes below 1 are tried by the constructors (0, -1, ...)
NegSizes == 2
\* number of rotate calls made on one cube
MaxMoves == 1
\* largest turn count passed to rotate
MaxTurns == 4
\* how many negative turn counts are passed to rotate (-1, -2, ...)
NegTurns == 1
\* how far outside [0,size) an invalid layer number may lie
OutLayers == 1
\* number of rotateLayer calls made on one cube of the functional variant
MaxSteps == 3

Sizes == (1 - NegSizes)..MaxSize
Turns == (0 - NegTurns)..MaxTurns

\* ------------------------------------------------- src/rubik.ts constants
colours ==
    [white |-> "white", blue |-> "blue", yellow |-> "yellow", green |-> "green",
     red |-> "red", orange |-> "orange", none |-> "none"]

axes == [x |-> 0, y |-> 1, z |-> 2]

dirs == [neg |-> 0 - 1, pos |-> 1]

faces ==
    [l |-> [axis |-> axes.x, dir |-> dirs.neg, startingColour |-> colours.green],
     r |-> [axis |-> axes.x, dir |-> dirs.pos, startingColour |-> colours.blue],
     d |-> [axis |-> axes.y, dir |-> dirs.neg, startingColour |-> colours.red],
     u |-> [axis |-> axes.y, dir |-> dirs.pos, startingColour |-> colours.orange],
     b |-> [axis |-> axes.z, dir |-> dirs.neg, startingColour |-> colours.yellow],
     f |-> [axis |-> axes.z, dir |-> dirs.pos, startingColour |-> colours.white]]

faceArray == <<faces.l, faces.r, faces.d, faces.u, faces.b, faces.f>>

\* the six Face objects (the keys of every faceMap)
Face == {faceArray[k] : k \in 1..6}

Axis == {axes.x, axes.y, axes.z}

\* the value of an array slot that holds no cubie
Undefined == 0 - 1

\* n ** 2
Sq(n) == n * n

\* isOnFace without the test of the face's direction
isOnFaceAnyDir(face, pos, size) ==
    \/ pos[face.axis + 1] = 0
    \/ pos[face.axis + 1] = size - 1

\* ------------------------------------------------------------ class Cubie
\* Cubie.isOnFace
isOnFace(face, pos, size) ==
    \/ (pos[face.axis + 1] = 0 /\ face.dir = dirs.neg)
    \/ (pos[face.axis + 1] = size - 1 /\ face.dir = dirs.pos)

\* Cubie.getStartingColourMap
getStartingColourMap(pos, size) ==
    [face \in Face |-> IF isOnFace(face, pos, size) THEN face.startingColour
                                                    ELSE colours.none]

\* new Cubie(pos, size)
Cubie(pos, size) ==
    [pos |-> pos, size |-> size, faceMap |-> getStartingColourMap(pos, size)]

\* Cubie.getColour (the map is total over Face, so the throw is unreachable)
getColour(cubie, face) == cubie.faceMap[face]

\* cycleLoop with the update prev = current left out
RECURSIVE cycleLoopStuck(_, _, _, _)
cycleLoopStuck(faceMap, fs, i, prv) ==
    IF i <= Len(fs)
    THEN cycleLoopStuck([faceMap EXCEPT ![fs[i]] = prv], fs, i + 1, prv)
    ELSE faceMap

\* the for loop of Cubie.cycleFaceMap, from iteration i (1-based) on
RECURSIVE cycleLoop(_, _, _, _)
cycleLoop(faceMap, fs, i, prv) ==
    IF i <= Len(fs)
    THEN cycleLoop([faceMap EXCEPT ![fs[i]] = prv], fs, i + 1, faceMap[fs[i]])
    ELSE faceMap

\* Cubie.cycleFaceMap: prev starts as the colour of the last face of the list
cycleFaceMap(cubie, fs) ==
    [cubie EXCEPT !.faceMap = cycleLoop(cubie.faceMap, fs, 1, getColour(cubie, fs[Len(fs)]))]

\* cycleOf with a face left out of the list of axis X
cycleOfShort(axis) ==
    CASE axis = axes.x -> <<faces.d, faces.b, faces.u>>
      [] axis = axes.y -> <<faces.b, faces.f, faces.f, faces.r>>
      [] axis = axes.z -> <<faces.r, faces.u, faces.l, faces.d>>

\* the face list Cubie.rotateToNewPos cycles for an axis
cycleOf(axis) ==
    CASE axis = axes.x -> <<faces.d, faces.b, faces.u, faces.f>>
      [] axis = axes.y -> <<faces.b, faces.f, faces.f, faces.r>>
      [] axis = axes.z -> <<faces.r, faces.u, faces.l, faces.d>>

\* a rotateToNewPos that cycles the face map and leaves pos as it was
rotateToNewPosKeepPos(cubie, axis, newPos) == cycleFaceMap(cubie, cycleOf(axis))

\* Cubie.rotateToNewPos
rotateToNewPos(cubie, axis, newPos) ==
    cycleFaceMap([cubie EXCEPT !.pos = newPos], cycleOf(axis))

\* a flat index without the factor size on the second coordinate
cubieIndexNoStride(size, pos) == pos[1] + pos[2] + Sq(size) * pos[3]

\* ------------------------------------------------------------- class Cube
\* cubieIndex with size in the place of size ** 2
cubieIndexLinear(size, pos) == pos[1] + size * pos[2] + size * pos[3]

\* the flat index of Cube.getCubie and Cube.setCubie
cubieIndex(size, pos) == pos[1] + size * pos[2] + Sq(size) * pos[3]

\* the read cubies[idx]: Undefined where nothing was written
readSlot(st, idx) == IF idx \in DOMAIN st.cubies THEN st.cubies[idx] ELSE Undefined

\* Cube.getCubie
getCubie(st, pos) == readSlot(st, cubieIndex(st.size, pos))

\* the assignment cubies[idx] = ref: a write at or beyond length grows the
\* array, a write at a negative index does not
writeSlot(st, idx, ref) ==
    [st EXCEPT !.cubies = IF idx \in DOMAIN @ THEN [@ EXCEPT ![idx] = ref]
                                              ELSE (idx :> ref) @@ @,
               !.length = IF idx >= @ THEN idx + 1 ELSE @]

\* Cube.setCubie
setCubie(st, pos, ref) == writeSlot(st, cubieIndex(st.size, pos), ref)

\* Cube.swapCubies
swapCubies(st, pos1, pos2) ==
    setCubie(setCubie(st, pos2, getCubie(st, pos1)), pos1, getCubie(st, pos2))

\* getPosOnLayer with the case of axis 1 repeated for axis 0
getPosOnLayerRepeated(i, j, layer) ==
    CASE layer.axis = 0 -> <<i, layer.layerNumber, j>>
      [] layer.axis = 1 -> <<i, layer.layerNumber, j>>
      [] layer.axis = 2 -> <<i, j, layer.layerNumber>>

\* Cube.getPosOnLayer
getPosOnLayer(i, j, layer) ==
    CASE layer.axis = 0 -> <<layer.layerNumber, i, j>>
      [] layer.axis = 1 -> <<i, layer.layerNumber, j>>
      [] layer.axis = 2 -> <<i, j, layer.layerNumber>>

\* the position genCubies gives to the k-th cubie it pushes (k from 0)
genPos(size, k) == <<k % size, (k \div size) % size, k \div Sq(size)>>

\* the number of cubies pushed by the three nested loops of genCubies
genCount(size) == IF size < 1 THEN 0 ELSE size * size * size

\* Cube.genCubies: the array of references and the objects it creates
genCubies(size) ==
    [cubies |-> [idx \in 0..(genCount(size) - 1) |-> idx],
     length |-> genCount(size),
     heap   |-> [ref \in 0..(genCount(size) - 1) |-> Cubie(genPos(size, ref), size)],
     err    |-> FALSE]

\* step 1 of Cube.rotate, inner loop: for (j = ...; j < size; j++)
RECURSIVE transposeJ(_, _, _, _)
transposeJ(st, layer, i, j) ==
    IF j < st.size
    THEN transposeJ(swapCubies(st, getPosOnLayer(i, j, layer), getPosOnLayer(j, i, layer)),
                    layer, i, j + 1)
    ELSE st

\* step 1 of Cube.rotate, outer loop: for (i = ...; i < size - 1; i++)
RECURSIVE transposeI(_, _, _)
transposeI(st, layer, i) ==
    IF i < st.size - 1
    THEN transposeI(transposeJ(st, layer, i, i + 1), layer, i + 1)
    ELSE st

\* a reversal that runs over the whole row and not over its first half
halfCountWhole(size) == size

\* Math.floor(size / 2)
halfCount(size) == size \div 2

\* step 2 of Cube.rotate, inner loop: for (j = ...; j < halfCount; j++)
RECURSIVE reverseJ(_, _, _, _)
reverseJ(st, layer, i, j) ==
    IF j < halfCount(st.size)
    THEN reverseJ(swapCubies(st, getPosOnLayer(i, j, layer),
                                 getPosOnLayer(i, (st.size - 1) - j, layer)),
                  layer, i, j + 1)
    ELSE st

\* step 2 of Cube.rotate, outer loop: for (i = ...; i < size; i++)
RECURSIVE reverseI(_, _, _)
reverseI(st, layer, i) ==
    IF i < st.size
    THEN reverseI(reverseJ(st, layer, i, 0), layer, i + 1)
    ELSE st

\* step 3 of Cube.rotate, the loop body: getCubie(pos).rotateToNewPos(axis, pos);
\* calling a method of an empty slot throws a TypeError
turnCubie(st, axis, pos, ref) ==
    IF ref = Undefined
    THEN [st EXCEPT !.err = TRUE]
    ELSE [st EXCEPT !.heap[ref] = rotateToNewPos(@, axis, pos)]

\* step 3 of Cube.rotate, inner loop; a TypeError ends the whole call with
\* what was written so far
RECURSIVE turnCubiesJ(_, _, _, _)
turnCubiesJ(st, layer, i, j) ==
    IF st.err \/ ~(j < st.size) THEN st
    ELSE turnCubiesJ(turnCubie(st, layer.axis, getPosOnLayer(i, j, layer),
                               getCubie(st, getPosOnLayer(i, j, layer))),
                     layer, i, j + 1)

\* step 3 of Cube.rotate, outer loop
RECURSIVE turnCubiesI(_, _, _)
turnCubiesI(st, layer, i) ==
    IF st.err \/ ~(i < st.size) THEN st
    ELSE turnCubiesI(turnCubiesJ(st, layer, i, 0), layer, i + 1)

\* the body of the rot loop of Cube.rotate: one quarter turn
quarterTurn(st, layer) ==
    turnCubiesI(reverseI(transposeI(st, layer, 0), layer, 0), layer, 0)

\* rotLoop with rot <= rotations as the loop condition
RECURSIVE rotLoopInclusive(_, _, _, _)
rotLoopInclusive(st, layer, rot, rotations) ==
    IF st.err \/ ~(rot <= rotations) THEN st
    ELSE rotLoopInclusive(quarterTurn(st, layer), layer, rot + 1, rotations)

\* rotLoop with rot < Math.abs(rotations) as the loop condition
RECURSIVE rotLoopAbs(_, _, _, _)
rotLoopAbs(st, layer, rot, rotations) ==
    IF st.err \/ ~(rot < (IF rotations < 0 THEN 0 - rotations ELSE rotations)) THEN st
    ELSE rotLoopAbs(quarterTurn(st, layer), layer, rot + 1, rotations)

\* the rot loop of Cube.rotate: for (rot = ...; rot < rotations; rot++)
RECURSIVE rotLoop(_, _, _, _)
rotLoop(st, layer, rot, rotations) ==
    IF st.err \/ ~(rot < rotations) THEN st
    ELSE rotLoop(quarterTurn(st, layer), layer, rot + 1, rotations)

\* Cube.rotate as a function of the cube
rotate(st, rotations, layer) == rotLoop(st, layer, 0, rotations)

\* Cube.getColoursOnFace: the grid colours[i][j], i and j from 0
getColoursOnFace(st, face) ==
    LET layer == [axis |-> face.axis,
                  layerNumber |-> IF face.dir = dirs.neg THEN 0 ELSE st.size - 1]
    IN  [i \in 0..(st.size - 1) |-> [j \in 0..(st.size - 1) |->
            getColour(st.heap[getCubie(st, getPosOnLayer(i, j, layer))], face)]]

\* --------------------------------------------------- src/unnamed/part_000
\* range with max included: the interval [0, max]
rangeInclusive(max) == [k \in 1..(IF max < 0 THEN 0 ELSE max + 1) |-> k - 1]

\* Utils.range: Array.from({length: max}) is empty for max < 1
range(max) == [k \in 1..(IF max < 1 THEN 0 ELSE max) |-> k - 1]

\* createCube: one cubie per (z, y, x) of the three nested forEach loops, pushed
\* in that order, each with the identity faces
createCube(size) ==
    LET n == Len(range(size))
    IN  [cubies |-> [k \in 1..(n * n * n) |->
                        [startPos |-> <<range(size)[((k - 1) % n) + 1],
                                        range(size)[(((k - 1) \div n) % n) + 1],
                                        range(size)[((k - 1) \div Sq(n)) + 1]>>,
                         faces |-> <<0, 1, 2, 3, 4, 5>>]],
         size |-> size]

\* getCubieIndexInLayerPos: [i, j] with layerNum spliced in at index axis
getCubieIndexInLayerPos(cubeSize, i, j, layer) ==
    LET pos == CASE layer.axis = 0 -> <<layer.layerNum, i, j>>
                 [] layer.axis = 1 -> <<i, layer.layerNum, j>>
                 [] layer.axis = 2 -> <<i, j, layer.layerNum>>
    IN  pos[1] + cubeSize * pos[2] + Sq(cubeSize) * pos[3]

\* cycles with one label written twice in the cycle of axis 0
faceCycleRepeated(axis) ==
    CASE axis = 0 -> <<0, 1, 4, 5, 2, 2>>
      [] axis = 1 -> <<5, 4, 2, 3, 0, 1>>
      [] axis = 2 -> <<2, 3, 1, 0, 4, 5>>

\* the cycle getFacesAfterRotation picks for an axis (indexed from 0)
faceCycle(axis) ==
    CASE axis = 0 -> <<0, 1, 4, 5, 2, 3>>
      [] axis = 1 -> <<5, 4, 2, 3, 0, 1>>
      [] axis = 2 -> <<2, 3, 1, 0, 4, 5>>

\* getFacesAfterRotation: faces.map(f => faces[cycle[f]])
getFacesAfterRotation(fs, axis) ==
    [k \in 1..Len(fs) |-> fs[faceCycle(axis)[fs[k] + 1] + 1]]

\* the cubie rotateLayer puts in cell (i, j): the one read from the cube it
\* was given at cell (size - j - 1, i), with its face map rotated
newCubie(st, layer, i, j) ==
    [startPos |-> st.input[getCubieIndexInLayerPos(st.size, st.size - j - 1, i, layer) + 1].startPos,
     faces |-> getFacesAfterRotation(
                   st.input[getCubieIndexInLayerPos(st.size, st.size - j - 1, i, layer) + 1].faces,
                   layer.axis)]

\* the assignment made without the copy: cubies is the given cube's own array
writeCellShared(st, idx, cubie) == [st EXCEPT !.out[idx + 1] = cubie, !.input[idx + 1] = cubie]

\* the assignment cubies[getCubieIndex(i, j)] = ...: cubies is the copy made
\* by slice(), so the array of the cube that was given is not written
writeCell(st, idx, cubie) == [st EXCEPT !.out[idx + 1] = cubie]

\* the two nested forEach loops of rotateLayer, visiting the cells in the
\* order of the sequence `cells`, from its k-th entry on
RECURSIVE rotateCells(_, _, _, _)
rotateCells(st, layer, cells, k) ==
    IF k <= Len(cells)
    THEN rotateCells(writeCell(st, getCubieIndexInLayerPos(st.size, cells[k][1], cells[k][2], layer),
                               newCubie(st, layer, cells[k][1], cells[k][2])),
                     layer, cells, k + 1)
    ELSE st

\* the order in which the forEach loops visit the cells: i outside, j inside
cellOrder(cubeSize) ==
    [k \in 1..(Len(range(cubeSize)) * Len(range(cubeSize))) |->
        <<range(cubeSize)[((k - 1) \div cubeSize) + 1], range(cubeSize)[((k - 1) % cubeSize) + 1]>>]

\* rotateLayer run with a given order of the cells: `input` is the array of
\* the cube that was given, `out` the copy that is returned
rotateLayerIn(c, layer, cells) ==
    rotateCells([input |-> c.cubies, out |-> c.cubies, size |-> c.size], layer, cells, 1)

\* rotateLayer: the loop state at return
rotateLayer(c, layer) == rotateLayerIn(c, layer, cellOrder(c.size))

\* ------------------------------------------------------------------ state
VARIABLES
    variant,   \* "none" before construction, "class" (new Cube) or "functional" (createCube)
    size,      \* Cube.size
    cubies,    \* Cube.cubies: slot -> reference or Undefined
    length,    \* Cube.cubies.length
    heap,      \* reference -> Cubie object
    outcome,   \* how the last call ended: "ok" or "TypeError"
    call,      \* the last call made and its arguments
    prev,      \* cubies, length and heap as they were before the last call
    moves,     \* number of rotate calls made so far
    fcube,     \* the Cube value of the functional variant
    fprev,     \* the Cube value given to the last rotateLayer call, as it was at the call
    finput     \* the same Cube value as it is after that call

vars == <<variant, size, cubies, length, heap, outcome, call, prev, moves, fcube, fprev, finput>>

\* the mutating cube as one value
cube == [size |-> size, cubies |-> cubies, length |-> length, heap |-> heap, err |-> FALSE]

NoLayer == [axis |-> 0, layerNumber |-> 0]

NoCube == [cubies |-> [idx \in {} |-> Undefined], length |-> 0, heap |-> [ref \in {} |-> Undefined]]

Init ==
    /\ variant = "none"
    /\ size = 0
    /\ cubies = NoCube.cubies
    /\ length = 0
    /\ heap = NoCube.heap
    /\ outcome = "ok"
    /\ call = [op |-> "none", rotations |-> 0, layer |-> NoLayer]
    /\ prev = NoCube
    /\ moves = 0
    /\ fcube = [cubies |-> <<>>, size |-> 0]
    /\ fprev = fcube
    /\ finput = fcube

\* the cube a call leaves behind, and how the call ended
Leave(st) ==
    /\ cubies' = st.cubies
    /\ length' = st.length
    /\ heap' = st.heap
    /\ outcome' = IF st.err THEN "TypeError" ELSE "ok"

\* new Cube(s): the constructor of class Cube
NewCube(s) ==
    /\ variant = "none"
    /\ variant' = "class"
    /\ size' = s
    /\ Leave(genCubies(s))
    /\ call' = [op |-> "new", rotations |-> 0, layer |-> NoLayer]
    /\ prev' = NoCube
    /\ UNCHANGED <<moves, fcube, fprev, finput>>

\* createCube(s) of the functional variant
CreateCube(s) ==
    /\ variant = "none"
    /\ variant' = "functional"
    /\ fcube' = createCube(s)
    /\ outcome' = "ok"
    /\ call' = [op |-> "createCube", rotations |-> 0, layer |-> NoLayer]
    /\ fprev' = createCube(s)
    /\ finput' = createCube(s)
    /\ UNCHANGED <<size, cubies, length, heap, prev, moves>>

\* cube.rotate(rotations, layer)
Rotate(rotations, layer) ==
    /\ variant = "class"
    /\ moves < MaxMoves
    /\ Leave(rotate(cube, rotations, layer))
    /\ call' = [op |-> "rotate", rotations |-> rotations, layer |-> layer]
    /\ prev' = [cubies |-> cubies, length |-> length, heap |-> heap]
    /\ moves' = moves + 1
    /\ UNCHANGED <<variant, size, fcube, fprev, finput>>

\* the Cube value rotateLayer returns
rotateLayerResult(c, layer) == [cubies |-> rotateLayer(c, layer).out, size |-> c.size]

\* what a rotateLayer call returns and what it leaves of the cube it was given
Return(st) ==
    /\ fcube' = [cubies |-> st.out, size |-> st.size]
    /\ finput' = [cubies |-> st.input, size |-> st.size]
    /\ fprev' = fcube

\* cube = rotateLayer(cube, layer) of the functional variant
RotateLayer(layer) ==
    /\ variant = "functional"
    /\ moves < MaxSteps
    /\ Return(rotateLayer(fcube, [axis |-> layer.axis, layerNum |-> layer.layerNumber]))
    /\ outcome' = "ok"
    /\ call' = [op |-> "rotateLayer", rotations |-> 1, layer |-> layer]
    /\ moves' = moves + 1
    /\ UNCHANGED <<variant, size, cubies, length, heap, prev>>

\* new Cube(s) and createCube(s), to run the two variants side by side
NewBoth(s) ==
    /\ variant = "none"
    /\ variant' = "both"
    /\ size' = s
    /\ Leave(genCubies(s))
    /\ fcube' = createCube(s)
    /\ fprev' = createCube(s)
    /\ finput' = createCube(s)
    /\ call' = [op |-> "new", rotations |-> 0, layer |-> NoLayer]
    /\ prev' = NoCube
    /\ UNCHANGED moves

\* cube.rotate(1, layer) on the one and rotateLayer(cube, layer) on the other
RotateBoth(layer) ==
    /\ variant = "both"
    /\ moves < MaxSteps
    /\ Leave(rotate(cube, 1, layer))
    /\ prev' = [cubies |-> cubies, length |-> length, heap |-> heap]
    /\ Return(rotateLayer(fcube, [axis |-> layer.axis, layerNum |-> layer.layerNumber]))
    /\ call' = [op |-> "both", rotations |-> 1, layer |-> layer]
    /\ moves' = moves + 1
    /\ UNCHANGED <<variant, size>>

\* the layer numbers of a cube of the given size
ValidLayers(s) == 0..(s - 1)

\* layer numbers the caller may pass when nothing restricts it
AnyLayers(s) == (0 - OutLayers)..(s - 1 + OutLayers)

Construct == \E s \in Sizes : NewCube(s) \/ CreateCube(s)

RotateValid ==
    \E n \in Turns, a \in Axis, k \in ValidLayers(size) :
        Rotate(n, [axis |-> a, layerNumber |-> k])

RotateAny ==
    \E n \in Turns, a \in Axis, k \in AnyLayers(size) :
        Rotate(n, [axis |-> a, layerNumber |-> k])

\* rotate is called with valid layers only
Next == Construct \/ RotateValid

Spec == Init /\ [][Next]_vars

\* rotate is called with any layer number
NextAny == Construct \/ RotateAny

SpecAny == Init /\ [][NextAny]_vars

\* the functional variant alone, rotateLayer called with valid layers
ConstructF == \E s \in Sizes : CreateCube(s)

RotateLayerValid ==
    \E a \in Axis, k \in ValidLayers(fcube.size) :
        RotateLayer([axis |-> a, layerNumber |-> k])

NextF == ConstructF \/ RotateLayerValid

SpecF == Init /\ [][NextF]_vars

\* the two variants side by side, given the same quarter turns
ConstructBoth == \E s \in Sizes : NewBoth(s)

RotateBothValid ==
    \E a \in Axis, k \in ValidLayers(size) :
        RotateBoth([axis |-> a, layerNumber |-> k])

NextBoth == ConstructBoth \/ RotateBothValid

SpecBoth == Init /\ [][NextBoth]_vars

\* ------------------------------------------------------- auxiliary notions
\* the cube as it was before the last call
prevCube ==
    [size |-> size, cubies |-> prev.cubies, length |-> prev.length, heap |-> prev.heap,
     err |-> FALSE]

\* the cube new Cube(size) gives
freshCube == [size |-> size] @@ genCubies(size)

\* same array (length and the cubie in every slot), same pos and slot colours
SameCube(s1, s2) ==
    /\ s1.cubies = s2.cubies
    /\ s1.length = s2.length
    /\ s1.heap = s2.heap

\* the valid layers of the cube
LayerSet == {[axis |-> a, layerNumber |-> k] : a \in Axis, k \in ValidLayers(size)}

\* the positions of the grid
Grid(s) == {<<x, y, z>> : x \in 0..(s - 1), y \in 0..(s - 1), z \in 0..(s - 1)}

\* the last call was rotate with a valid layer
RotatedValid ==
    /\ variant = "class"
    /\ call.op = "rotate"
    /\ call.layer.layerNumber \in ValidLayers(size)

\* --------------------------------------------------------------- claims
\* C1: from every state reached by rotations, four quarter turns of one valid
\* layer give back the same cube (the same cubie in every slot with the same
\* pos and the same colour in all six face slots): rotate(4, L) for every
\* layer L, and rotate(1, L) made four times in a row.
C1_FourTurnsIdentity ==
    /\ variant = "class" => \A L \in LayerSet : SameCube(rotate(cube, 4, L), cube)
    /\ (RotatedValid /\ call.rotations = 1) =>
          SameCube(rotate(rotate(rotate(cube, 1, call.layer), 1, call.layer), 1, call.layer),
                   prevCube)

\* rotate(4, L) about Y has just run on a cube of size 3, one quarter turn
\* of L changes the cube, and the cube is the one it was before the call
C1_Witness ==
    /\ RotatedValid
    /\ size = 3
    /\ call.rotations = 4
    /\ call.layer.axis = axes.y
    /\ ~SameCube(rotate(cube, 1, call.layer), cube)
    /\ SameCube(cube, prevCube)

\* C2: after any sequence of valid rotations no cell of getColoursOnFace(f),
\* for any of the six faces, is the none colour.
C2_NoNoneVisible ==
    (variant = "class" /\ size >= 1) =>
        \A face \in Face : \A i, j \in 0..(size - 1) :
            getColoursOnFace(cube, face)[i][j] # colours.none

\* C3: after any sequence of valid rotations the cubies are size^3 in number,
\* their pos values are exactly [0,size)^3 and no two cubies share a pos.
C3_PositionsBijective ==
    (variant = "class" /\ size >= 1) =>
        LET refs == {readSlot(cube, idx) : idx \in 0..(length - 1)}
        IN  /\ length = size * size * size
            /\ Undefined \notin refs
            /\ Cardinality(refs) = size * size * size
            /\ refs = DOMAIN heap
            /\ {heap[ref].pos : ref \in refs} = Grid(size)
            /\ \A r1, r2 \in refs : heap[r1].pos = heap[r2].pos => r1 = r2
            /\ DOMAIN cubies = 0..(length - 1)

\* a cube of size 3 whose cubies were moved by a rotation
C3_Witness ==
    /\ RotatedValid
    /\ size = 3
    /\ call.rotations \in 1..3
    /\ cubies # prev.cubies
    /\ \E ref \in DOMAIN heap : heap[ref].pos # prev.heap[ref].pos

\* the number of slots of a face map that hold a colour
SlotCount(faceMap, colour) == Cardinality({face \in Face : faceMap[face] = colour})

\* C4: every cubie holds, after any sequence of valid rotations about any
\* axis, the same multiset of non-none colours as at creation.
C4_StickersConserved ==
    variant = "class" =>
        \A ref \in DOMAIN heap : \A colour \in {colours[k] : k \in DOMAIN colours} :
            colour # colours.none =>
                SlotCount(heap[ref].faceMap, colour)
                    = SlotCount(getStartingColourMap(genPos(size, ref), size), colour)

\* a quarter turn about Y has just re-slotted the colours of a corner cubie
C4_Witness ==
    /\ RotatedValid
    /\ size >= 2
    /\ call.rotations = 1
    /\ call.layer.axis = axes.y
    /\ \E ref \in DOMAIN heap :
          /\ heap[ref].faceMap # prev.heap[ref].faceMap
          /\ SlotCount(heap[ref].faceMap, colours.none) = 3

\* C5: rotate(n, L) with a valid layer leaves every cubie whose coordinate
\* along L.axis differs from L.layerNumber in its slot, with its pos and its
\* six slot colours.
C5_OffLayerUnchanged ==
    RotatedValid =>
        \A idx \in DOMAIN prev.cubies :
            LET ref == prev.cubies[idx]
            IN  (ref # Undefined /\ prev.heap[ref].pos[call.layer.axis + 1] # call.layer.layerNumber)
                    => (readSlot(cube, idx) = ref /\ heap[ref] = prev.heap[ref])

\* a rotation that changed the cube while cubies lay outside its layer
C5_Witness ==
    /\ RotatedValid
    /\ size = 3
    /\ call.rotations \in 1..3
    /\ ~SameCube(cube, prevCube)
    /\ \E ref \in DOMAIN heap :
          /\ prev.heap[ref].pos[call.layer.axis + 1] # call.layer.layerNumber
          /\ heap[ref] = prev.heap[ref]

\* the side faces of a layer: the four faces that are not on its axis
SideFaces(layer) == {face \in Face : face.axis # layer.axis}

\* the cubies of the layer that lie on the boundary of a face
OnFaceInLayer(st, layer, face) ==
    {ref \in DOMAIN st.heap :
        /\ st.heap[ref].pos[layer.axis + 1] = layer.layerNumber
        /\ isOnFace(face, st.heap[ref].pos, st.size)}

\* the side faces from which the last call brought the cubies now on `face`
SourceFaces(layer, face) ==
    {h \in SideFaces(layer) :
        \A ref \in OnFaceInLayer(cube, layer, face) : isOnFace(h, prev.heap[ref].pos, size)}

\* the colours a face grid shows in its top row (the cells with y = size - 1)
TopRow(st, face) ==
    LET layer == [axis |-> face.axis,
                  layerNumber |-> IF face.dir = dirs.neg THEN 0 ELSE st.size - 1]
    IN  {getColoursOnFace(st, face)[i][j] :
            <<i, j>> \in {c \in (0..(st.size - 1)) \X (0..(st.size - 1)) :
                            getPosOnLayer(c[1], c[2], layer)[2] = st.size - 1}}

\* C6: on a fresh cube of size 3, rotate(1, {Y, 2}) makes the top row of
\* getColoursOnFace(R) show the colour the top row of F showed before; and
\* one quarter turn of any layer of a fresh cube makes each side face of the
\* layer show, on that layer, the colour of the face its cubies came from.
C6_SideColoursFollowCubies ==
    (RotatedValid /\ moves = 1 /\ call.rotations = 1 /\ size >= 2) =>
        /\ (size = 3 /\ call.layer = [axis |-> axes.y, layerNumber |-> 2])
              => TopRow(cube, faces.r) = TopRow(prevCube, faces.f)
        /\ \A g \in SideFaces(call.layer) : \A h \in SourceFaces(call.layer, g) :
              \A ref \in OnFaceInLayer(cube, call.layer, g) :
                  getColour(heap[ref], g) = h.startingColour

\* C7: for every valid layer L and k in 1..3, rotate(k, L) followed by
\* rotate(4 - k, L) leaves the cube as it was before the first call.
C7_InverseTurns ==
    (RotatedValid /\ call.rotations \in 1..3) =>
        SameCube(rotate(cube, 4 - call.rotations, call.layer), prevCube)

\* rotate(3, L) has just changed a cube of size 3
C7_Witness ==
    /\ RotatedValid
    /\ size = 3
    /\ call.rotations = 3
    /\ outcome = "ok"
    /\ ~SameCube(cube, prevCube)
    /\ ~SameCube(rotate(cube, 2, call.layer), prevCube)

\* C8: a negative turn count rotates the other way: rotate(-k, L) gives the
\* state rotate(4 - k, L) gives, and rotate(k, L) followed by rotate(-k, L)
\* restores the state before both calls (k in 1..3, L valid).
C8_NegativeTurnsInvert ==
    variant = "class" =>
        \A L \in LayerSet : \A k \in 1..3 :
            /\ SameCube(rotate(cube, 0 - k, L), rotate(cube, 4 - k, L))
            /\ SameCube(rotate(rotate(cube, k, L), 0 - k, L), cube)

\* C8 as amended: a negative turn count does nothing: rotate(-k, L) returns
\* normally and leaves the cube as it was, so rotate(k, L) followed by
\* rotate(-k, L) leaves the state rotate(k, L) produced (k in 1..3, L valid).
C8_NegativeTurnsNoOp ==
    /\ variant = "class" =>
          \A L \in LayerSet : \A k \in 1..3 :
              /\ ~rotate(cube, 0 - k, L).err
              /\ SameCube(rotate(cube, 0 - k, L), cube)
    /\ (RotatedValid /\ call.rotations < 0) => (outcome = "ok" /\ SameCube(cube, prevCube))

\* rotate(-1, L) has just run on a cube of size 3 on a layer whose quarter
\* turn would change the cube
C8_Witness ==
    /\ RotatedValid
    /\ size = 3
    /\ call.rotations < 0
    /\ ~SameCube(rotate(cube, 1, call.layer), cube)
    /\ ~SameCube(rotate(cube, 3, call.layer), cube)

\* C9: on a cube of size >= 1, rotate(1, L) with L.layerNumber outside
\* [0,size) ends in an error and leaves the array (length and every slot)
\* and every cubie's pos and slot colours as they were before the call.
C9_InvalidLayerRejected ==
    (variant = "class" /\ size >= 1 /\ call.op = "rotate" /\ call.rotations = 1
        /\ call.layer.layerNumber \notin ValidLayers(size))
    => (outcome # "ok" /\ SameCube(cube, prevCube))

C11_FreshCubeColours ==
    (variant = "class" /\ call.op = "new" /\ size >= 1) =>
        /\ length = size * size * size
        /\ DOMAIN cubies = 0..(length - 1)
        /\ Cardinality({cubies[idx] : idx \in DOMAIN cubies}) = length
        /\ {heap[cubies[idx]].pos : idx \in DOMAIN cubies} = Grid(size)
        /\ \A idx \in DOMAIN cubies : \A f \in Face :
              LET c == heap[cubies[idx]]
                  outer == IF f.dir = dirs.neg THEN 0 ELSE size - 1
              IN  /\ c.pos[1] + size * c.pos[2] + size * size * c.pos[3] = idx
                  /\ c.faceMap[f] = IF c.pos[f.axis + 1] = outer
                                    THEN f.startingColour ELSE colours.none

\* a fresh cube of size 3 with a corner cubie (three coloured slots), an
\* edge cubie (two), a centre cubie (one) and the inner cubie (none)
C11_Witness ==
    /\ variant = "class"
    /\ call.op = "new"
    /\ size = 3
    /\ \A n \in 0..3 : \E ref \in DOMAIN heap :
          Cardinality({f \in Face : heap[ref].faceMap[f] # colours.none}) = n

\* the layers rotateLayer can be given for the cube of the functional variant
FLayerSet == {[axis |-> a, layerNum |-> k] : a \in Axis, k \in ValidLayers(fcube.size)}

\* the functional variant holds a cube of size >= 1
Functional == variant = "functional" /\ fcube.size >= 1

\* C12: in the functional variant, from a fresh cube and from every cube
\* reached by rotations, rotateLayer applied four times to the same layer
\* returns a cube equal to the one started from: the same startPos and the
\* same six-entry faces map in every slot.
C12_FourRotateLayersIdentity ==
    Functional =>
        \A L \in FLayerSet :
            rotateLayerResult(rotateLayerResult(rotateLayerResult(rotateLayerResult(
                fcube, L), L), L), L) = fcube

\* the flat index of cell (i, j) of a layer: the layer number is the
\* coordinate along the layer's axis, i and j the other two in order
CellIndex(s, i, j, layer) ==
    LET p == CASE layer.axis = 0 -> <<layer.layerNumber, i, j>>
               [] layer.axis = 1 -> <<i, layer.layerNumber, j>>
               [] layer.axis = 2 -> <<i, j, layer.layerNumber>>
    IN  p[1] + s * p[2] + s * s * p[3]

\* the two variants have just made the same quarter turn of a valid layer
TurnedBoth == variant = "both" /\ call.op = "both" /\ size >= 1

\* C13: one quarter turn of a layer puts in cell (i, j) the cubie that was
\* in cell (size - 1 - j, i), for every size, odd ones included: in
\* Cube.rotate (transpose, then reverse each row) the same cubie object, in
\* rotateLayer the cubie with the same startPos.
C13_CellPermutation ==
    TurnedBoth =>
        \A i, j \in 0..(size - 1) :
            /\ cubies[CellIndex(size, i, j, call.layer)]
                   = prev.cubies[CellIndex(size, size - 1 - j, i, call.layer)]
            /\ fcube.cubies[CellIndex(size, i, j, call.layer) + 1].startPos
                   = fprev.cubies[CellIndex(size, size - 1 - j, i, call.layer) + 1].startPos

\* a quarter turn of a layer of a cube of size 3 has moved cubies in both
\* variants, and the centre cell of the layer has kept its cubie
C13_Witness ==
    /\ TurnedBoth
    /\ size = 3
    /\ cubies # prev.cubies
    /\ cubies[CellIndex(3, 1, 1, call.layer)] = prev.cubies[CellIndex(3, 1, 1, call.layer)]
    /\ \E k \in 1..27 : fcube.cubies[k].startPos # fprev.cubies[k].startPos

\* the re-slotting read off the cycle of an axis as "each face receives the
\* old colour of the next face of the cycle": pairs <<receiving face, face
\* whose old colour it receives>>
NextInCycle(axis) ==
    CASE axis = axes.x -> {<<faces.d, faces.b>>, <<faces.b, faces.u>>,
                           <<faces.u, faces.f>>, <<faces.f, faces.d>>}
      [] axis = axes.y -> {<<faces.b, faces.f>>, <<faces.f, faces.r>>,
                           <<faces.r, faces.l>>, <<faces.l, faces.b>>}
      [] axis = axes.z -> {<<faces.r, faces.u>>, <<faces.u, faces.l>>,
                           <<faces.l, faces.d>>, <<faces.d, faces.r>>}

\* the cubies of the layer that the last call turned
TurnedRefs == {ref \in DOMAIN prev.heap : prev.heap[ref].pos[call.layer.axis + 1] = call.layer.layerNumber}

\* C14: one quarter turn gives every cubie of the layer, in each face slot of
\* the axis' cycle, the colour the cubie had in the slot of the next face of
\* that cycle (X: D gets old B, B old U, U old F, F old D; Y: B gets old F,
\* F old R, R old L, L old B; Z: R gets old U, U old L, L old D, D old R).
C14_SlotsTakeNextInCycle ==
    (RotatedValid /\ call.rotations = 1) =>
        \A ref \in TurnedRefs : \A p \in NextInCycle(call.layer.axis) :
            heap[ref].faceMap[p[1]] = prev.heap[ref].faceMap[p[2]]

\* the four faces that are not on an axis
SideFacesOf(axis) == {f \in Face : f.axis # axis}

\* the ways to give every side face of an axis another side face
OwnerChanges(axis) ==
    {s \in [SideFacesOf(axis) -> SideFacesOf(axis)] :
        /\ \A f \in SideFacesOf(axis) : s[f] # f
        /\ \A f, g \in SideFacesOf(axis) : s[f] = s[g] => f = g}

\* C15: the list of faces that rotateToNewPos cycles for the axis of a
\* quarter turn is made of exactly four distinct faces, the four that are
\* not on that axis; so the turn leaves the two slots on the axis as they
\* were in every cubie of the layer, and gives every one of the four side
\* slots the old content of another side slot.
C15_CycleIsFourSideFaces ==
    (RotatedValid /\ call.rotations = 1) =>
        LET axis == call.layer.axis
            list == cycleOf(axis)
        IN  /\ Len(list) = 4
            /\ \A k, m \in 1..Len(list) : list[k] = list[m] => k = m
            /\ {list[k] : k \in 1..Len(list)} = SideFacesOf(axis)
            /\ \A ref \in TurnedRefs : \A f \in Face \ SideFacesOf(axis) :
                  heap[ref].faceMap[f] = prev.heap[ref].faceMap[f]
            /\ \E s \in OwnerChanges(axis) :
                  \A ref \in TurnedRefs : \A f \in SideFacesOf(axis) :
                      heap[ref].faceMap[f] = prev.heap[ref].faceMap[s[f]]

\* the face of the class variant that a label 0..5 of the functional variant
\* stands for: 0=L, 1=R, 2=D, 3=U, 4=B, 5=F
FaceOfLabel(g) == <<faces.l, faces.r, faces.d, faces.u, faces.b, faces.f>>[g + 1]

\* the colour a cubie of the functional variant shows in slot g: the colour
\* it started with on the original face o that its faces map sends to g
LabelColour(c, s, g) ==
    LET o == CHOOSE o \in 0..5 : c.faces[o + 1] = g
    IN  IF \E p \in 0..5 : c.faces[p + 1] = g
        THEN getStartingColourMap(c.startPos, s)[FaceOfLabel(o)]
        ELSE colours.none

\* C16: the two variants are equivalent: given the same quarter turns from a
\* fresh cube, they hold at every grid position a cubie with the same
\* starting position and, in every face slot, the same colour.
C16_VariantsEquivalent ==
    (variant = "both" /\ size >= 1) =>
        \A idx \in 0..(size * size * size - 1) :
            /\ freshCube.heap[cubies[idx]].pos = fcube.cubies[idx + 1].startPos
            /\ \A g \in 0..5 :
                  heap[cubies[idx]].faceMap[FaceOfLabel(g)]
                      = LabelColour(fcube.cubies[idx + 1], size, g)

\* the last call was rotateLayer on a cube of size >= 1
RotatedLayer == variant = "functional" /\ call.op = "rotateLayer" /\ fcube.size >= 1

\* the layer of the last rotateLayer call
CallLayer == [axis |-> call.layer.axis, layerNum |-> call.layer.layerNumber]

\* the cells of a layer in the opposite order of the forEach loops
ReverseOrder(s) == [k \in 1..Len(cellOrder(s)) |-> cellOrder(s)[Len(cellOrder(s)) + 1 - k]]

\* the cells of a layer with j in the outer loop and i in the inner one
ColumnOrder(s) == [k \in 1..Len(cellOrder(s)) |-> <<cellOrder(s)[k][2], cellOrder(s)[k][1]>>]

\* C17: rotateLayer does not change the cube it is given (its cubies array
\* and every cubie's startPos and faces are after the call what they were
\* before); every cell of the result is computed from the cube as it was
\* before the call, so visiting the cells in another order gives the same
\* result.
C17_RotateLayerPure ==
    RotatedLayer =>
        /\ finput = fprev
        /\ \A i, j \in 0..(fprev.size - 1) :
              LET old == fprev.cubies[getCubieIndexInLayerPos(fprev.size, fprev.size - j - 1, i, CallLayer) + 1]
              IN  fcube.cubies[getCubieIndexInLayerPos(fprev.size, i, j, CallLayer) + 1]
                      = [startPos |-> old.startPos,
                         faces |-> getFacesAfterRotation(old.faces, CallLayer.axis)]
        /\ rotateLayerIn(fprev, CallLayer, ReverseOrder(fprev.size)).out = fcube.cubies
        /\ rotateLayerIn(fprev, CallLayer, ColumnOrder(fprev.size)).out = fcube.cubies

\* rotateLayer has run on a cube of size 3 that an earlier call had already
\* rotated, and has returned a cube that differs from the one it was given
C17_Witness ==
    /\ RotatedLayer
    /\ fcube.size = 3
    /\ moves = 2
    /\ fcube.cubies # fprev.cubies
    /\ finput = fprev

\* C18: after every completed rotate call with a valid layer, the cubie
\* stored at the flat index x + size*y + size^2*z has pos = (x, y, z).
C18_PosMatchesSlot ==
    (RotatedValid /\ size >= 1 /\ outcome = "ok") =>
        \A x, y, z \in 0..(size - 1) :
            /\ (x + size * y + size * size * z) \in DOMAIN cubies
            /\ heap[cubies[x + size * y + size * size * z]].pos = <<x, y, z>>

\* rotate has turned a layer of a cube of size 3 by one to three quarter
\* turns, and a corner cubie of the cube has been moved to another slot
C18_Witness ==
    /\ RotatedValid
    /\ outcome = "ok"
    /\ size = 3
    /\ call.rotations \in 1..3
    /\ cubies[0] # prev.cubies[0]
    /\ heap[cubies[0]].pos = <<0, 0, 0>>
    /\ prev.heap[cubies[0]].pos # <<0, 0, 0>>

\* C19: in the functional variant, after createCube and any sequence of
\* rotateLayer calls, every cubie's faces map is a permutation of the labels
\* 0..5, and the startPos values of the cubies are exactly the positions of
\* [0,size)^3, none of them twice.
C19_LabelsAndStartPosPermuted ==
    Functional =>
        /\ Len(fcube.cubies) = fcube.size * fcube.size * fcube.size
        /\ \A k \in 1..Len(fcube.cubies) :
              /\ Len(fcube.cubies[k].faces) = 6
              /\ {fcube.cubies[k].faces[m] : m \in 1..6} = 0..5
        /\ {fcube.cubies[k].startPos : k \in 1..Len(fcube.cubies)} = Grid(fcube.size)
        /\ \A k, m \in 1..Len(fcube.cubies) :
              fcube.cubies[k].startPos = fcube.cubies[m].startPos => k = m

\* two rotateLayer calls have been made on a cube of size 3; a cubie is in
\* another slot than the one it started in and its faces map is no longer
\* the one createCube gave it
C19_Witness ==
    /\ RotatedLayer
    /\ fcube.size = 3
    /\ moves = 2
    /\ \E k \in 1..27 :
          /\ fcube.cubies[k].startPos # createCube(3).cubies[k].startPos
          /\ fcube.cubies[k].faces # <<0, 1, 2, 3, 4, 5>>
          /\ fcube.cubies[k].faces # faceCycle(call.layer.axis)

\* the layer with the given number on the axis of the last call
SameAxisLayer(b) == [axis |-> call.layer.axis, layerNumber |-> b]

\* C20: quarter turns of two different layers on the same axis commute: for
\* every cube reached, every axis and distinct valid layer numbers a and b,
\* rotate(1, a) followed by rotate(1, b) leaves the same cube as rotate(1, b)
\* followed by rotate(1, a). Stated for the state in which rotate(1, a) has
\* just been made on the cube as it was before, for every other layer b.
C20_SameAxisLayersCommute ==
    TurnedBoth =>
        \A b \in ValidLayers(size) \ {call.layer.layerNumber} :
            SameCube(rotate(cube, 1, SameAxisLayer(b)),
                     rotate(rotate(prevCube, 1, SameAxisLayer(b)), 1, call.layer))

\* a quarter turn has been made on a cube of size 3 that had been turned
\* before, and a quarter turn of another layer of the same axis changes a
\* cube that the first turn of the other order has changed as well
C20_Witness ==
    /\ TurnedBoth
    /\ size = 3
    /\ moves = 2
    /\ cubies # prev.cubies
    /\ \E b \in ValidLayers(size) \ {call.layer.layerNumber} :
          /\ ~SameCube(rotate(cube, 1, SameAxisLayer(b)), cube)
          /\ ~SameCube(rotate(prevCube, 1, SameAxisLayer(b)), prevCube)

====
